---- MODULE Spec2Model ----
(***************************************************************************)
(* A model of src/main.py: the three tools of the DataGen agent            *)
(* (write_json, read_json, generate_sample_users), run_agent and the CLI   *)
(* loop.  Text is modelled as a sequence of one-character strings, so that *)
(* lower-casing, formatting, serialisation and parsing are computed.       *)
(***************************************************************************)
EXTENDS Integers, Sequences, FiniteSets, TLC

VARIABLES
    \* generate_sample_users: its arguments, locals and return value
    first_names, last_names, domains, min_age, max_age, city,
    users, count, i, result, gpc,
    \* the files the tools work on, and the last tool call: its name, its
    \* path, what it returned
    fs, jop, jpath, jret,
    \* per path, the latest write_json call: whether there was one, whether it
    \* reported success, and its data
    lastWrite,
    \* the CLI loop: where it is, the line read and its stripped form, the history,
    \* what was printed, the messages handed to the orchestrator and what it
    \* did with them, and the numbers of lines forwarded and of calls made
    dpc, line, user_input, history, stdout, request, outcome, forwarded, invoked

gvars == <<first_names, last_names, domains, min_age, max_age, city,
           users, count, i, result, gpc>>

jvars == <<fs, jop, jpath, jret, lastWrite>>

dvars == <<dpc, line, user_input, history, stdout, request, outcome, forwarded, invoked>>

vars == <<gvars, jvars, dvars>>

(***************************************************************************)
(* Text helpers                                                            *)
(***************************************************************************)

\* "".join(parts): the concatenation of a sequence of texts
RECURSIVE Concat(_)
Concat(parts) ==
    IF parts = << >> THEN << >> ELSE Head(parts) \o Concat(Tail(parts))

Digit(d) ==
    CASE d = 0 -> "0" [] d = 1 -> "1" [] d = 2 -> "2" [] d = 3 -> "3"
      [] d = 4 -> "4" [] d = 5 -> "5" [] d = 6 -> "6" [] d = 7 -> "7"
      [] d = 8 -> "8" [] d = 9 -> "9"

RECURSIVE NatStr(_)
NatStr(n) ==
    IF n < 10 THEN <<Digit(n)>> ELSE NatStr(n \div 10) \o <<Digit(n % 10)>>

\* str(n) of an int, as the f-strings and json format it
IntStr(n) == IF n < 0 THEN <<"-">> \o NatStr(0 - n) ELSE NatStr(n)

\* One character of str.lower(): the ASCII capitals; the other characters of
\* the model have no lower-case form
LowerChar(c) ==
    CASE c = "A" -> "a" [] c = "B" -> "b" [] c = "C" -> "c" [] c = "D" -> "d" [] c = "E" -> "e"
      [] c = "F" -> "f" [] c = "G" -> "g" [] c = "H" -> "h" [] c = "I" -> "i" [] c = "J" -> "j"
      [] c = "K" -> "k" [] c = "L" -> "l" [] c = "M" -> "m" [] c = "N" -> "n" [] c = "O" -> "o"
      [] c = "P" -> "p" [] c = "Q" -> "q" [] c = "R" -> "r" [] c = "S" -> "s" [] c = "T" -> "t"
      [] c = "U" -> "u" [] c = "V" -> "v" [] c = "W" -> "w" [] c = "X" -> "x" [] c = "Y" -> "y"
      [] c = "Z" -> "z"
      [] OTHER -> c

\* str.lower()
Lower(s) == [k \in 1..Len(s) |-> LowerChar(s[k])]

(***************************************************************************)
(* Python values, as json.dump and json.load see them                      *)
(***************************************************************************)

\* A character outside ASCII is written as the name of its code point
EAcute == "U+00E9"
CrossMark == "U+274C"
CheckMark == "U+2705"
OtherChar == "U+FFFD"
NonAscii == {EAcute, CrossMark, CheckMark, OtherChar}

\* A byte sequence that is not UTF-8, as it sits in a file
BadByte == "0xFF"

\* Every value has the same fields; t tells which of them carry the value
Mk(t, b, n, s, keys, items) ==
    [t |-> t, b |-> b, n |-> n, s |-> s, keys |-> keys, items |-> items]
PyNone == Mk("none", FALSE, 0, << >>, << >>, << >>)
PyBool(b) == Mk("bool", b, 0, << >>, << >>, << >>)
PyInt(n) == Mk("int", FALSE, n, << >>, << >>, << >>)
PyStr(s) == Mk("str", FALSE, 0, s, << >>, << >>)
PyList(items) == Mk("list", FALSE, 0, << >>, << >>, items)
PyTuple(items) == Mk("tuple", FALSE, 0, << >>, << >>, items)
\* A set: a value json cannot serialise
PySet(items) == Mk("set", FALSE, 0, << >>, << >>, items)
\* A dict keeps its keys in insertion order; keys[k] maps to items[k]
PyDict(keys, items) == Mk("dict", FALSE, 0, << >>, keys, items)

(***************************************************************************)
(* json.dump(data, f, indent=2, ensure_ascii=...): the chunks written      *)
(* before the encoder ends or raises TypeError                             *)
(***************************************************************************)

Chars4(a, b, c, d) == <<a, b, c, d>>
NullText == Chars4("n", "u", "l", "l")
TrueText == Chars4("t", "r", "u", "e")
FalseText == <<"f", "a", "l", "s", "e">>

Written(text) == [ok |-> TRUE, text |-> text]
Raised(text) == [ok |-> FALSE, text |-> text]

\* '\n' + indent * level, with indent = 2 spaces
NewlineIndent(level) == <<"\n">> \o [k \in 1..(2 * level) |-> " "]

\* The four hex digits of '\\u{0:04x}'
HexOf(c) ==
    CASE c = EAcute -> Chars4("0", "0", "e", "9")
      [] c = CrossMark -> Chars4("2", "7", "4", "c")
      [] c = CheckMark -> Chars4("2", "7", "0", "5")
      [] OTHER -> Chars4("f", "f", "f", "d")

\* EscapeChar with the double quote left as it is
EscapeChar_NoQuote(c, ascii) ==
    CASE c = "\\" -> <<"\\", "\\">>
      [] c = "\n" -> <<"\\", "n">>
      [] ascii /\ c \in NonAscii -> <<"\\", "u">> \o HexOf(c)
      [] OTHER -> <<c>>

\* encode_basestring (ascii = FALSE) and encode_basestring_ascii (TRUE)
EscapeChar(c, ascii) ==
    CASE c = "\"" -> <<"\\", "\"">>
      [] c = "\\" -> <<"\\", "\\">>
      [] c = "\n" -> <<"\\", "n">>
      [] ascii /\ c \in NonAscii -> <<"\\", "u">> \o HexOf(c)
      [] OTHER -> <<c>>

EncStr(s, ascii) ==
    <<"\"">> \o Concat([k \in 1..Len(s) |-> EscapeChar(s[k], ascii)]) \o <<"\"">>

\* A dict key as the encoder writes it: str as is, int, bool and None
\* converted to text; any other key raises TypeError
KeyOk(k) == k.t \in {"str", "int", "bool", "none"}
KeyText(k) ==
    CASE k.t = "str" -> k.s
      [] k.t = "int" -> IntStr(k.n)
      [] k.t = "bool" -> IF k.b THEN TrueText ELSE FalseText
      [] OTHER -> NullText

\* The one element of a singleton set.  Only({F(x) : x \in {e}}) is F(e) with
\* e evaluated once, whatever the number of places F uses it in
Only(S) == CHOOSE x \in S : TRUE

RECURSIVE Enc(_, _, _), EncList(_, _, _, _), EncDict(_, _, _, _, _)

\* _iterencode
Enc(v, level, ascii) ==
    CASE v.t = "none" -> Written(NullText)
      [] v.t = "bool" -> Written(IF v.b THEN TrueText ELSE FalseText)
      [] v.t = "int" -> Written(IntStr(v.n))
      [] v.t = "str" -> Written(EncStr(v.s, ascii))
      [] v.t \in {"list", "tuple"} ->
            IF v.items = << >> THEN Written(<<"[", "]">>)
            ELSE Only({[ok |-> r.ok,
                        text |-> <<"[">> \o NewlineIndent(level + 1) \o r.text] :
                       r \in {EncList(v.items, 1, level + 1, ascii)}})
      [] v.t = "dict" ->
            IF v.keys = << >> THEN Written(<<"{", "}">>)
            ELSE Only({[ok |-> r.ok,
                        text |-> <<"{">> \o NewlineIndent(level + 1) \o r.text] :
                       r \in {EncDict(v.keys, v.items, 1, level + 1, ascii)}})
      [] OTHER -> Raised(<< >>)

\* _iterencode_list, from item k on, at the items' indent level
EncList(items, k, level, ascii) ==
    IF k > Len(items) THEN Written(NewlineIndent(level - 1) \o <<"]">>)
    ELSE LET sep == IF k = 1 THEN << >> ELSE <<",">> \o NewlineIndent(level)
         IN  Only({IF ~e.ok THEN Raised(sep \o e.text)
                   ELSE Only({[ok |-> r.ok, text |-> sep \o e.text \o r.text] :
                              r \in {EncList(items, k + 1, level, ascii)}}) :
                   e \in {Enc(items[k], level, ascii)}})

\* _iterencode_dict, from entry k on
EncDict(keys, items, k, level, ascii) ==
    IF k > Len(keys) THEN Written(NewlineIndent(level - 1) \o <<"}">>)
    ELSE IF ~KeyOk(keys[k]) THEN Raised(<< >>)
    ELSE LET sep == IF k = 1 THEN << >> ELSE <<",">> \o NewlineIndent(level)
             head == sep \o EncStr(KeyText(keys[k]), ascii) \o <<":", " ">>
         IN  Only({IF ~e.ok THEN Raised(head \o e.text)
                   ELSE Only({[ok |-> r.ok, text |-> head \o e.text \o r.text] :
                              r \in {EncDict(keys, items, k + 1, level, ascii)}}) :
                   e \in {Enc(items[k], level, ascii)}})

\* json.dump(data, f, indent=2, ensure_ascii=False)
Dump(data) == Only({Enc(d, 0, FALSE) : d \in {data}})

\* json.dumps(data, indent=2)
Dumps(data) == Only({Enc(d, 0, TRUE) : d \in {data}})

(***************************************************************************)
(* json.load: the decoder                                                  *)
(***************************************************************************)

Whitespace == {" ", "\n", "\t", "\r"}
Digits == {"0", "1", "2", "3", "4", "5", "6", "7", "8", "9"}
HexDigits == Digits \cup {"a", "b", "c", "d", "e", "f"}

At(t, p) == IF p >= 1 /\ p <= Len(t) THEN t[p] ELSE "EOF"

RECURSIVE SkipWs(_, _)
SkipWs(t, p) == IF At(t, p) \in Whitespace THEN SkipWs(t, p + 1) ELSE p

Parsed(val, pos) == [ok |-> TRUE, val |-> val, pos |-> pos]
DecodeError == [ok |-> FALSE, val |-> PyNone, pos |-> 0]

DigitVal(c) ==
    CASE c = "0" -> 0 [] c = "1" -> 1 [] c = "2" -> 2 [] c = "3" -> 3
      [] c = "4" -> 4 [] c = "5" -> 5 [] c = "6" -> 6 [] c = "7" -> 7
      [] c = "8" -> 8 [] c = "9" -> 9 [] c = "a" -> 10 [] c = "b" -> 11
      [] c = "c" -> 12 [] c = "d" -> 13 [] c = "e" -> 14 [] c = "f" -> 15

\* chr() of a \uXXXX escape, on the code points the model names
CodeChar(n) ==
    CASE n = 233 -> EAcute
      [] n = 10060 -> CrossMark
      [] n = 9989 -> CheckMark
      [] OTHER -> OtherChar

\* The digits from p on: [n |-> their value, pos |-> the place after them]
RECURSIVE ScanDigits(_, _, _)
ScanDigits(t, p, acc) ==
    IF At(t, p) \in Digits THEN ScanDigits(t, p + 1, 10 * acc + DigitVal(t[p]))
    ELSE [n |-> acc, pos |-> p]

\* NUMBER_RE, integers only: -?(0|[1-9]\d*)
ScanNumber(t, p) ==
    LET neg == At(t, p) = "-"
        q == IF neg THEN p + 1 ELSE p
    IN  IF At(t, q) \notin Digits THEN DecodeError
        ELSE IF t[q] = "0" THEN Parsed(PyInt(0), q + 1)
        ELSE LET d == ScanDigits(t, q, 0)
             IN  Parsed(PyInt(IF neg THEN 0 - d.n ELSE d.n), d.pos)

\* py_scanstring (strict), from the place after the opening quote
RECURSIVE ScanString(_, _, _)
ScanString(t, p0, acc0) ==
    Only({
        LET c == At(t, p)
            e == At(t, p + 1)
        IN  CASE c = "EOF" -> DecodeError
              [] c = "\"" -> Parsed(PyStr(acc), p + 1)
              [] c \in {"\n", "\t", "\r"} -> DecodeError
              [] c = "\\" ->
                    CASE e \in {"\"", "\\", "/"} -> ScanString(t, p + 2, Append(acc, e))
                      [] e = "n" -> ScanString(t, p + 2, Append(acc, "\n"))
                      [] e = "t" -> ScanString(t, p + 2, Append(acc, "\t"))
                      [] e = "r" -> ScanString(t, p + 2, Append(acc, "\r"))
                      [] e = "u" ->
                            IF \A k \in 2..5 : At(t, p + k) \in HexDigits
                            THEN ScanString(t, p + 6, Append(acc, CodeChar(
                                    4096 * DigitVal(t[p + 2]) + 256 * DigitVal(t[p + 3])
                                    + 16 * DigitVal(t[p + 4]) + DigitVal(t[p + 5]))))
                            ELSE DecodeError
                      [] OTHER -> DecodeError
              [] OTHER -> ScanString(t, p + 1, Append(acc, c)) :
        p \in {p0}, acc \in {acc0}})

StartsWith(t, p, word) ==
    \A k \in 1..Len(word) : At(t, p + k - 1) = word[k]

\* dict(pairs): a repeated key keeps its first place and takes the last value
DictPut(d, k, v) ==
    IF \E j \in 1..Len(d.keys) : d.keys[j] = k
    THEN LET j == CHOOSE j \in 1..Len(d.keys) : d.keys[j] = k
         IN  PyDict(d.keys, [d.items EXCEPT ![j] = v])
    ELSE PyDict(Append(d.keys, k), Append(d.items, v))

RECURSIVE ScanOnce(_, _), ScanArray(_, _, _), ScanObject(_, _, _)

\* scan_once: the value that starts at p
ScanOnce(t, p0) ==
    Only({
        LET c == At(t, p)
            q == SkipWs(t, p + 1)
        IN  CASE c = "\"" -> ScanString(t, p + 1, << >>)
              [] c = "{" ->
                    IF At(t, q) = "}" THEN Parsed(PyDict(<< >>, << >>), q + 1)
                    ELSE ScanObject(t, q, PyDict(<< >>, << >>))
              [] c = "[" ->
                    IF At(t, q) = "]" THEN Parsed(PyList(<< >>), q + 1)
                    ELSE ScanArray(t, q, << >>)
              [] c = "n" /\ StartsWith(t, p, NullText) -> Parsed(PyNone, p + 4)
              [] c = "t" /\ StartsWith(t, p, TrueText) -> Parsed(PyBool(TRUE), p + 4)
              [] c = "f" /\ StartsWith(t, p, FalseText) -> Parsed(PyBool(FALSE), p + 5)
              [] OTHER -> ScanNumber(t, p) :
        p \in {p0}})

\* JSONArray: the loop, at the start of an item
ScanArray(t, p, acc) ==
    Only({
        IF ~v.ok THEN DecodeError
        ELSE Only({
                CASE At(t, q) = "]" -> Parsed(PyList(items), q + 1)
                  [] At(t, q) = "," -> ScanArray(t, SkipWs(t, q + 1), items)
                  [] OTHER -> DecodeError :
                q \in {SkipWs(t, v.pos)}, items \in {Append(acc, v.val)}}) :
        v \in {ScanOnce(t, p)}})

\* JSONObject: the loop, at the start of a key
ScanObject(t, p, acc) ==
    IF At(t, p) # "\"" THEN DecodeError
    ELSE Only({
        IF ~k.ok \/ At(t, SkipWs(t, k.pos)) # ":" THEN DecodeError
        ELSE Only({
                IF ~v.ok THEN DecodeError
                ELSE Only({
                        CASE At(t, r) = "}" -> Parsed(d, r + 1)
                          [] At(t, r) = "," -> ScanObject(t, SkipWs(t, r + 1), d)
                          [] OTHER -> DecodeError :
                        r \in {SkipWs(t, v.pos)}, d \in {DictPut(acc, k.val, v.val)}}) :
                v \in {ScanOnce(t, SkipWs(t, SkipWs(t, k.pos) + 1))}}) :
        k \in {ScanString(t, p + 1, << >>)}})

\* JSONDecoder.decode: one value between whitespace, and nothing after it
Loads(text) ==
    Only({
        Only({IF ~v.ok THEN DecodeError
              ELSE IF SkipWs(t, v.pos) <= Len(t) THEN DecodeError
              ELSE v :
              v \in {ScanOnce(t, SkipWs(t, 1))}}) :
        t \in {text}})

(***************************************************************************)
(* Exceptions and the files                                                *)
(***************************************************************************)

\* The base class of each exception class the tools can meet
Base(cls) ==
    CASE cls = "FileNotFoundError" -> "OSError"
      [] cls = "PermissionError" -> "OSError"
      [] cls = "IsADirectoryError" -> "OSError"
      [] cls = "OSError" -> "Exception"
      [] cls = "JSONDecodeError" -> "ValueError"
      [] cls = "UnicodeDecodeError" -> "ValueError"
      [] cls = "ValueError" -> "Exception"
      [] cls = "TypeError" -> "Exception"
      [] cls = "KeyError" -> "LookupError"
      [] cls = "LookupError" -> "Exception"
      [] cls = "ConnectionError" -> "OSError"
      [] cls = "GraphRecursionError" -> "RecursionError"
      [] cls = "RecursionError" -> "RuntimeError"
      [] cls = "RuntimeError" -> "Exception"
      [] cls = "Exception" -> "BaseException"
      [] OTHER -> "object"

\* isinstance(e, target) for an exception e of class cls
RECURSIVE IsInstance(_, _)
IsInstance(cls, target) ==
    IF cls = target THEN TRUE
    ELSE IF cls = "object" THEN FALSE
    ELSE IsInstance(Base(cls), target)

\* The except clause that handles an exception: the first, in the order
\* written, whose class the exception is an instance of (0: none does)
Handler(clauses, cls) ==
    IF \E k \in 1..Len(clauses) : IsInstance(cls, clauses[k])
    THEN CHOOSE k \in 1..Len(clauses) :
            /\ IsInstance(cls, clauses[k])
            /\ \A j \in 1..(k - 1) : ~IsInstance(cls, clauses[j])
    ELSE 0

Paths == {"users.json"}

Absent == [kind |-> "absent", text |-> << >>, r |-> FALSE, w |-> FALSE]
Directory == [kind |-> "dir", text |-> << >>, r |-> TRUE, w |-> TRUE]
File(text, r, w) == [kind |-> "file", text |-> text, r |-> r, w |-> w]

\* str(e) of the OSError that open() raises
OsErrorText(cls, path) ==
    CASE cls = "FileNotFoundError" -> <<"[Errno 2] No such file or directory: '", path, "'">>
      [] cls = "PermissionError" -> <<"[Errno 13] Permission denied: '", path, "'">>
      [] OTHER -> <<"[Errno 21] Is a directory: '", path, "'">>

NoRaise == "none"

\* open(filepath, 'r', encoding='utf-8'): the exception raised, if any
OpenRead(f) ==
    CASE f.kind = "absent" -> "FileNotFoundError"
      [] f.kind = "dir" -> "IsADirectoryError"
      [] ~f.r -> "PermissionError"
      [] OTHER -> NoRaise

\* open(filepath, 'w', encoding='utf-8'): the exception raised, if any
OpenWrite(f) ==
    CASE f.kind = "dir" -> "IsADirectoryError"
      [] f.kind = "file" /\ ~f.w -> "PermissionError"
      [] OTHER -> NoRaise

\* f.read() under utf-8 raises UnicodeDecodeError on bytes that are not UTF-8
Decodable(text) == \A k \in 1..Len(text) : text[k] # BadByte

(***************************************************************************)
(* write_json                                                              *)
(***************************************************************************)

WriteOkMsg(data, path) ==
    <<CheckMark, " Successfully written ">> \o IntStr(Len(data.keys))
        \o <<" top-level keys to ", path>>
WriteErrMsg(reason) == <<CrossMark, " Error writing JSON: ">> \o reason

\* The body of write_json's try: [raised, file, ret] (the exception class or
\* NoRaise, the file as the body leaves it, the value returned when the body
\* ends)
WriteBody(f, path, data) ==
    LET o == OpenWrite(f)
        d == Dump(data)
        mode == IF f.kind = "file" THEN f ELSE File(<< >>, TRUE, TRUE)
    IN  IF o # NoRaise
        THEN [raised |-> o, file |-> f, reason |-> OsErrorText(o, path)]
        ELSE IF ~d.ok
        THEN [raised |-> "TypeError", file |-> File(d.text, mode.r, mode.w),
              reason |-> <<"Object is not JSON serializable">>]
        ELSE [raised |-> NoRaise, file |-> File(d.text, mode.r, mode.w),
              reason |-> << >>]

WriteClauses == <<"Exception">>

\* write_json(filepath, data): [file, ret]
WriteJsonCall(f, path, data) ==
    LET b == WriteBody(f, path, data)
    IN  IF b.raised = NoRaise
        THEN [file |-> b.file, ret |-> WriteOkMsg(data, path), raised |-> NoRaise]
        ELSE IF Handler(WriteClauses, b.raised) = 1
        THEN [file |-> b.file, ret |-> WriteErrMsg(b.reason), raised |-> NoRaise]
        ELSE [file |-> b.file, ret |-> << >>, raised |-> b.raised]

(***************************************************************************)
(* read_json                                                               *)
(***************************************************************************)

NotFoundMsg(path) == <<CrossMark, " Error: File '", path, "' not found">>
InvalidJsonMsg(path) == <<CrossMark, " Error: Invalid JSON in file '", path, "'">>
ReadErrMsg(reason) == <<CrossMark, " Error reading JSON: ">> \o reason

\* The body of read_json's try: [raised, ret, reason]
ReadBody(f, path) ==
    LET o == OpenRead(f)
    IN  IF o # NoRaise
        THEN [raised |-> o, ret |-> << >>, reason |-> OsErrorText(o, path)]
        ELSE IF ~Decodable(f.text)
        THEN [raised |-> "UnicodeDecodeError", ret |-> << >>,
              reason |-> <<"'utf-8' codec can't decode byte 0xff">>]
        ELSE LET v == Loads(f.text)
             IN  IF ~v.ok
                 THEN [raised |-> "JSONDecodeError", ret |-> << >>,
                       reason |-> <<"Expecting value">>]
                 ELSE [raised |-> NoRaise, ret |-> Dumps(v.val).text, reason |-> << >>]

\* ReadClauses with ValueError caught where JSONDecodeError is
ReadClauses_ValueError == <<"FileNotFoundError", "ValueError", "Exception">>

ReadClauses == <<"FileNotFoundError", "JSONDecodeError", "Exception">>

\* read_json(filepath): [ret, raised]
ReadJsonCall(f, path) ==
    LET b == ReadBody(f, path)
        h == Handler(ReadClauses, b.raised)
    IN  IF b.raised = NoRaise THEN [ret |-> b.ret, raised |-> NoRaise]
        ELSE CASE h = 1 -> [ret |-> NotFoundMsg(path), raised |-> NoRaise]
               [] h = 2 -> [ret |-> InvalidJsonMsg(path), raised |-> NoRaise]
               [] h = 3 -> [ret |-> ReadErrMsg(b.reason), raised |-> NoRaise]
               [] OTHER -> [ret |-> << >>, raised |-> b.raised]

(***************************************************************************)
(* The tools at work on the files                                          *)
(***************************************************************************)

MaxKeys == 2

Str1(c) == PyStr(<<c>>)
DataKeys == {Str1("a"), Str1("1"), PyInt(1)}
DataValues ==
    { PyList(<<PyStr(<<"q", "\"", EAcute>>), PyInt(0 - 12),
               PyDict(<<Str1("b")>>, <<PyNone>>)>>),
      PyTuple(<<PyBool(TRUE)>>),
      PySet(<< >>) }

\* The sequences of n different keys
KeySeqs(n) ==
    {ks \in [1..n -> DataKeys] : \A a, b \in 1..n : a # b => ks[a] # ks[b]}

\* The dicts of at most MaxKeys entries over DataKeys and DataValues
DataDicts ==
    UNION {{PyDict(ks, vs) : ks \in KeySeqs(n), vs \in [1..n -> DataValues]} :
            n \in 0..MaxKeys}

\* What the file may hold before the tools run
RawTexts ==
    { << >>,
      <<"1">>,
      <<"0", "1">>,
      <<" ", "-", "0", "\n">>,
      <<"[", "1", ",", "]">>,
      <<"[", "1", ",", " ", "t", "r", "u", "e", "]">>,
      <<"{", "\"", "a", "\"", ":", "1", ",", "\"", "a", "\"", ":", "2", "}">>,
      <<"{", "\"", "a", "\"", ":", "1">>,
      <<"\"", CrossMark, " ", "E", "r", "r", "o", "r", "\"">>,
      <<"\"", "x", "\\", "u", "0", "0", "e", "9", "\"">>,
      <<"\"", "x", "\n", "\"">>,
      <<"n", "u", "l">>,
      <<"1", BadByte>>,
      <<BadByte>> }

\* The texts the files without read or write permission hold
LockedTexts == {<<"1">>}

InitFiles ==
    {Absent, Directory}
        \cup {File(t, TRUE, TRUE) : t \in RawTexts}
        \cup {File(t, r, w) : t \in LockedTexts, r \in BOOLEAN, w \in BOOLEAN}

NeverWritten == [called |-> FALSE, ok |-> FALSE, data |-> PyNone]

\* The files before any tool call, for the specifications of the other parts
JsonIdle ==
    /\ fs = [p \in Paths |-> Absent]
    /\ jop = "none"
    /\ jpath = "none"
    /\ jret = << >>
    /\ lastWrite = [p \in Paths |-> NeverWritten]

\* A call of the tool write_json
WriteJson ==
    \E path \in Paths, data \in DataDicts :
        \E c \in {WriteJsonCall(fs[path], path, data)} :
            /\ c.raised = NoRaise
            /\ fs' = [fs EXCEPT ![path] = c.file]
            /\ jop' = "write_json"
            /\ jpath' = path
            /\ jret' = c.ret
            /\ lastWrite' = [lastWrite EXCEPT ![path] =
                    [called |-> TRUE, ok |-> c.ret = WriteOkMsg(data, path),
                     data |-> data]]
            /\ UNCHANGED <<gvars, dvars>>

\* A call of the tool read_json
ReadJson ==
    \E path \in Paths :
        \E c \in {ReadJsonCall(fs[path], path)} :
            /\ c.raised = NoRaise
            /\ jop' = "read_json"
            /\ jpath' = path
            /\ jret' = c.ret
            /\ UNCHANGED <<fs, lastWrite, gvars, dvars>>

(***************************************************************************)
(* generate_sample_users                                                   *)
(***************************************************************************)

MaxFirst == 3
MaxAge == 1

FirstPool == << <<"A","n","n">>, <<"B","O","B">>, <<"c","Y">>, <<"D","e","e">> >>
LastPool == << <<"L","e","e">>, <<"O","Z">> >>
DomainPool == << <<"x",".","c","o","m">>, <<"Y",".","o","r","g">> >>
CityPool == << <<"R","o","m","e">>, <<"O","s","l","o">> >>

\* The first n entries of a pool, the pool repeating when n exceeds it
Prefix(pool, n) == [k \in 1..n |-> pool[((k - 1) % Len(pool)) + 1]]

FirstNameLists == {Prefix(FirstPool, n) : n \in 0..MaxFirst}
LastNameLists == {Prefix(LastPool, n) : n \in 0..Len(LastPool)}
DomainLists == {Prefix(DomainPool, n) : n \in 0..Len(DomainPool)}
CityLists == {Prefix(CityPool, n) : n \in 0..Len(CityPool)}
Ages == (0 - 1)..MaxAge

\* random.randint(a, b): any integer of a..b, both ends included
RandInt(a, b) == a..b

\* AgeDraws with the upper end one too far
AgeDraws_PastMax(lo, hi) == lo..(hi + 1)

\* Line 83: random.randint(min_age, max_age)
AgeDraws(lo, hi) == RandInt(lo, hi)

\* Line 84: random.randint(0, len(city) - 1)
CityIndexDraws(ct) == RandInt(0, Len(ct) - 1)

\* The draws of the user-name suffix, RandInt(SuffixLo, SuffixHi), and of the
\* registration offset, RandInt(0, DaysHi), that the model follows: both ends
\* of each range
SuffixLo == 100
SuffixHi == 999
DaysHi == 365
OtherDraws == {[suffix |-> SuffixLo, days |-> 0], [suffix |-> SuffixHi, days |-> DaysHi]}

\* datetime.now(), as a day number
Today == 1000

ErrFirst == [error |-> <<"first_names list cannot be empty.">>]
ErrLast == [error |-> <<"last_names list cannot be empty.">>]
ErrDomains == [error |-> <<"domains list cannot be empty.">>]
ErrOrder(lo, hi) ==
    [error |-> <<"min_age ">> \o IntStr(lo)
                 \o <<" cannot be greater than max_age ">> \o IntStr(hi) \o <<".">>]
ErrNegative == [error |-> <<"Ages must be non-negative.">>]
ErrCity == [error |-> <<"city list cannot be empty">>]
NoError == [ok |-> TRUE]

\* Validate with the non-negative check passing unless both ages are negative
Validate_NegativeBoth(fn, ln, dm, lo, hi, ct) ==
    IF fn = << >> THEN ErrFirst
    ELSE IF ln = << >> THEN ErrLast
    ELSE IF dm = << >> THEN ErrDomains
    ELSE IF lo > hi THEN ErrOrder(lo, hi)
    ELSE IF lo < 0 /\ hi < 0 THEN ErrNegative
    ELSE IF ct = << >> THEN ErrCity
    ELSE NoError

\* Validate with the non-negative check made before the ordering check
Validate_NegativeFirst(fn, ln, dm, lo, hi, ct) ==
    IF fn = << >> THEN ErrFirst
    ELSE IF ln = << >> THEN ErrLast
    ELSE IF dm = << >> THEN ErrDomains
    ELSE IF lo < 0 \/ hi < 0 THEN ErrNegative
    ELSE IF lo > hi THEN ErrOrder(lo, hi)
    ELSE IF ct = << >> THEN ErrCity
    ELSE NoError

\* The validation chain: the first failing check's result, or NoError
Validate(fn, ln, dm, lo, hi, ct) ==
    IF fn = << >> THEN ErrFirst
    ELSE IF ln = << >> THEN ErrLast
    ELSE IF dm = << >> THEN ErrDomains
    ELSE IF lo > hi THEN ErrOrder(lo, hi)
    ELSE IF lo < 0 \/ hi < 0 THEN ErrNegative
    ELSE IF ct = << >> THEN ErrCity
    ELSE NoError

\* CycleAt with the index clamped to the last entry instead of wrapped
CycleAt_Clamp(list, k) == list[IF k + 1 <= Len(list) THEN k + 1 ELSE Len(list)]

\* last_names[i % len(last_names)] and domains[i % len(domains)], 0-based i
CycleAt(list, k) == list[(k % Len(list)) + 1]

Email(first, last, domain) ==
    Lower(first) \o <<".">> \o Lower(last) \o <<"@">> \o domain

\* User with the 0-based loop index as the id
User_IdFromZero(k, suffix, age, cityIdx, days) ==
    LET first == first_names[k + 1]
        last == last_names[(k % Len(last_names)) + 1]
        domain == domains[(k % Len(domains)) + 1]
    IN  [id |-> k,
         firstName |-> first,
         lastName |-> last,
         email |-> Lower(first) \o <<".">> \o Lower(last) \o <<"@">> \o domain,
         userName |-> Lower(first) \o IntStr(suffix),
         age |-> age,
         city |-> city[cityIdx + 1],
         registered_at |-> Today - days]

\* The user record of loop index k (0-based) under the given random draws
User(k, suffix, age, cityIdx, days) ==
    LET first == first_names[k + 1]
        last == CycleAt(last_names, k)
        domain == CycleAt(domains, k)
    IN  [id |-> k + 1,
         firstName |-> first,
         lastName |-> last,
         email |-> Email(first, last, domain),
         userName |-> Lower(first) \o IntStr(suffix),
         age |-> age,
         city |-> city[cityIdx + 1],
         registered_at |-> Today - days]

\* The generator before any call, for the specifications of the other parts
GenIdle ==
    /\ first_names = << >>
    /\ last_names = << >>
    /\ domains = << >>
    /\ min_age = 0
    /\ max_age = 0
    /\ city = << >>
    /\ users = << >>
    /\ count = 0
    /\ i = 0
    /\ result = NoError
    /\ gpc = "idle"

\* Lines 55-69: the checks, then users = [] and count = len(first_names)
GenValidate ==
    /\ gpc = "call"
    /\ LET v == Validate(first_names, last_names, domains, min_age, max_age, city)
       IN  IF "error" \in DOMAIN v
           THEN /\ result' = v
                /\ gpc' = "done"
                /\ UNCHANGED <<users, count, i>>
           ELSE /\ users' = << >>
                /\ count' = Len(first_names)
                /\ i' = 0
                /\ gpc' = "loop"
                /\ UNCHANGED result
    /\ UNCHANGED <<first_names, last_names, domains, min_age, max_age, city>>
    /\ UNCHANGED <<jvars, dvars>>

\* Lines 71-87: one iteration of the loop
GenLoop ==
    /\ gpc = "loop"
    /\ i < count
    /\ \E d \in OtherDraws, age \in AgeDraws(min_age, max_age),
          cityIdx \in CityIndexDraws(city) :
            users' = Append(users, User(i, d.suffix, age, cityIdx, d.days))
    /\ i' = i + 1
    /\ UNCHANGED <<first_names, last_names, domains, min_age, max_age, city,
                   count, result, gpc>>
    /\ UNCHANGED <<jvars, dvars>>

\* Line 89
GenReturn ==
    /\ gpc = "loop"
    /\ i = count
    /\ result' = [users |-> users, count |-> Len(users)]
    /\ gpc' = "done"
    /\ UNCHANGED <<first_names, last_names, domains, min_age, max_age, city,
                   users, count, i>>
    /\ UNCHANGED <<jvars, dvars>>

(***************************************************************************)
(* run_agent and the CLI loop                                              *)
(***************************************************************************)

MaxTurns == 3

HumanMessage(content) == [role |-> "human", content |-> content]
AIMessage(content) == [role |-> "ai", content |-> content]

\* str.strip(): the whitespace at both ends removed
RECURSIVE StripLeft(_)
StripLeft(s) ==
    IF s # << >> /\ Head(s) \in Whitespace THEN StripLeft(Tail(s)) ELSE s
RECURSIVE StripRight(_)
StripRight(s) ==
    IF s # << >> /\ s[Len(s)] \in Whitespace
    THEN StripRight(SubSeq(s, 1, Len(s) - 1)) ELSE s
Strip(s) == StripRight(StripLeft(s))

\* ExitTokens without the empty line
ExitTokens_NoEmpty == {<<"q", "u", "i", "t">>, <<"e", "x", "i", "t">>, <<"q">>}

\* ['quit', 'exit', 'q', ""]
ExitTokens == {<<"q", "u", "i", "t">>, <<"e", "x", "i", "t">>, <<"q">>, << >>}

\* The lines input() may return
InputLines ==
    { <<"q", "u", "i", "t">>,
      <<" ", "Q", "u", "I", "T", "\t">>,
      <<"E", "x", "i", "t">>,
      <<"Q">>,
      << >>,
      <<" ", " ">>,
      <<"h", "i">>,
      <<" ", "h", "i", " ">>,
      <<"q", "u", "i", "t", " ", "i", "t">>,
      <<"e", "x", "i", "t", "s">> }

\* What agent.invoke may do: return a result whose last message is the reply,
\* return a result without messages, or raise
NoOutcome == [kind |-> "none", cls |-> NoRaise, text |-> << >>]
Outcomes ==
    { [kind |-> "reply", cls |-> NoRaise, text |-> <<"Saved 3 users.">>],
      [kind |-> "reply", cls |-> NoRaise, text |-> << >>],
      [kind |-> "malformed", cls |-> "KeyError", text |-> <<"'messages'">>],
      [kind |-> "raise", cls |-> "ConnectionError", text |-> <<"503 service unavailable">>],
      [kind |-> "raise", cls |-> "GraphRecursionError",
       text |-> <<"Recursion limit of 50 reached">>] }

\* RunAgentClauses catching ValueError only
RunAgentClauses_ValueError == <<"ValueError">>

RunAgentClauses == <<"Exception">>

ErrorReply(reason) ==
    AIMessage(<<CrossMark, " Error: ">> \o reason \o <<"\nPlease try again.">>)

\* run_agent, once agent.invoke has ended: [raised, response]
RunAgentResult(o) ==
    IF o.kind = "reply" THEN [raised |-> NoRaise, response |-> AIMessage(o.text)]
    ELSE IF Handler(RunAgentClauses, o.cls) = 1
    THEN [raised |-> NoRaise, response |-> ErrorReply(o.text)]
    ELSE [raised |-> o.cls, response |-> AIMessage(<< >>)]

\* NextHistory with the reply alone appended
NextHistory_ReplyOnly(h, input, response) == h \o <<response>>

\* Line 157: history += [HumanMessage(content=user_input), response]
NextHistory(h, input, response) == h \o <<HumanMessage(input), response>>

\* Line 120: history + [HumanMessage(content=user_input)]
Messages(h, input) == h \o <<HumanMessage(input)>>

Goodbye == <<"Goodbye!">>

DriverInit ==
    /\ dpc = "prompt"
    /\ line = << >>
    /\ user_input = << >>
    /\ history = << >>
    /\ stdout = << >>
    /\ request = << >>
    /\ outcome = NoOutcome
    /\ forwarded = 0
    /\ invoked = 0

\* Lines 147-152: read a line; leave the loop on an exit token
Prompt ==
    /\ dpc = "prompt"
    /\ \E l \in InputLines :
        LET stripped == Strip(l)
        IN  /\ line' = l
            /\ user_input' = stripped
            /\ IF Lower(stripped) \in ExitTokens
               THEN /\ stdout' = Append(stdout, Goodbye)
                    /\ dpc' = "done"
                    /\ UNCHANGED forwarded
               ELSE /\ Len(history) < 2 * MaxTurns
                    /\ dpc' = "call"
                    /\ forwarded' = forwarded + 1
                    /\ UNCHANGED stdout
    /\ UNCHANGED <<history, request, outcome, invoked>>
    /\ UNCHANGED <<gvars, jvars>>

\* Lines 153 and 118-122: run_agent hands history + [HumanMessage] to the agent
Invoke ==
    /\ dpc = "call"
    /\ request' = Messages(history, user_input)
    /\ invoked' = invoked + 1
    /\ outcome' = NoOutcome
    /\ dpc' = "agent"
    /\ UNCHANGED <<line, user_input, history, stdout, forwarded>>
    /\ UNCHANGED <<gvars, jvars>>

\* The orchestrator ends the call
Orchestrate ==
    /\ dpc = "agent"
    /\ outcome' \in Outcomes
    /\ dpc' = "returned"
    /\ UNCHANGED <<line, user_input, history, stdout, request, forwarded, invoked>>
    /\ UNCHANGED <<gvars, jvars>>

\* Lines 123-125 and 154-157: the reply or the error reply, printed and
\* appended to the history with the human turn
Finish ==
    /\ dpc = "returned"
    /\ LET r == RunAgentResult(outcome)
       IN  IF r.raised = NoRaise
           THEN /\ stdout' = Append(stdout, r.response.content)
                /\ history' = NextHistory(history, user_input, r.response)
                /\ dpc' = "prompt"
           ELSE /\ dpc' = "crashed"
                /\ UNCHANGED <<stdout, history>>
    /\ UNCHANGED <<line, user_input, request, outcome, forwarded, invoked>>
    /\ UNCHANGED <<gvars, jvars>>

\* The CLI loop before it starts, for the specifications of the other parts
DriverIdle ==
    /\ dpc = "idle"
    /\ line = << >>
    /\ user_input = << >>
    /\ history = << >>
    /\ stdout = << >>
    /\ request = << >>
    /\ outcome = NoOutcome
    /\ forwarded = 0
    /\ invoked = 0

(***************************************************************************)
(* Specifications                                                          *)
(***************************************************************************)

GenInit ==
    /\ first_names \in FirstNameLists
    /\ last_names \in LastNameLists
    /\ domains \in DomainLists
    /\ min_age \in Ages
    /\ max_age \in Ages
    /\ city \in CityLists
    /\ users = << >>
    /\ count = 0
    /\ i = 0
    /\ result = NoError
    /\ gpc = "call"
    /\ JsonIdle
    /\ DriverIdle

GenNext == GenValidate \/ GenLoop \/ GenReturn

GenSpec == GenInit /\ [][GenNext]_vars

JsonInit ==
    /\ fs \in [Paths -> InitFiles]
    /\ jop = "none"
    /\ jpath = "none"
    /\ jret = << >>
    /\ lastWrite = [p \in Paths |-> NeverWritten]
    /\ GenIdle
    /\ DriverIdle

JsonNext == WriteJson \/ ReadJson

JsonSpec == JsonInit /\ [][JsonNext]_vars

CliInit == DriverInit /\ GenIdle /\ JsonIdle

CliNext == Prompt \/ Invoke \/ Orchestrate \/ Finish

CliSpec == CliInit /\ [][CliNext]_vars

(***************************************************************************)
(* Properties of generate_sample_users, under GenSpec                      *)
(***************************************************************************)

Range(seq) == {seq[k] : k \in 1..Len(seq)}

Capitals ==
    {"A", "B", "C", "D", "E", "F", "G", "H", "I", "J", "K", "L", "M",
     "N", "O", "P", "Q", "R", "S", "T", "U", "V", "W", "X", "Y", "Z"}

\* The inputs that pass validation, as the claims word it
ValidInputs ==
    /\ first_names # << >>
    /\ last_names # << >>
    /\ domains # << >>
    /\ city # << >>
    /\ 0 <= min_age
    /\ min_age <= max_age

Returned == gpc = "done"

\* C1: for inputs that pass validation the result holds a 'users' sequence of
\* exactly len(first_names) records and 'count' equal to that length, and the
\* record at position i (0-based) has id = i + 1.
C1_CountAndIds ==
    (Returned /\ ValidInputs) =>
        /\ "users" \in DOMAIN result
        /\ "count" \in DOMAIN result
        /\ Len(result.users) = Len(first_names)
        /\ result.count = Len(first_names)
        /\ \A k \in 0..(Len(first_names) - 1) : result.users[k + 1].id = k + 1
        /\ \A a, b \in 1..Len(result.users) :
                a # b => result.users[a].id # result.users[b].id

C1_Witness ==
    /\ Returned
    /\ ValidInputs
    /\ Len(first_names) = 3
    /\ "users" \in DOMAIN result
    /\ result.count = 3
    /\ result.users[3].id = 3

\* C2: for valid inputs, record i has firstName = first_names[i], lastName =
\* last_names[i mod len(last_names)] and email = lowercase(firstName) + "." +
\* lowercase(lastName) + "@" + domains[i mod len(domains)].
C2_NamesAndEmail ==
    (Returned /\ ValidInputs /\ "users" \in DOMAIN result) =>
        \A k \in 0..(Len(first_names) - 1) :
            LET u == result.users[k + 1]
            IN  /\ u.firstName = first_names[k + 1]
                /\ u.lastName = last_names[(k % Len(last_names)) + 1]
                /\ u.email = Lower(u.firstName) \o <<".">> \o Lower(u.lastName)
                        \o <<"@">> \o domains[(k % Len(domains)) + 1]
                /\ \A c \in Range(SubSeq(u.email, 1,
                                            Len(u.firstName) + Len(u.lastName) + 1)) :
                        c \notin Capitals

\* Three first names over two last names and two domains: the third record wraps
\* to the first last name and domain, and the second is bob.oz@Y.org
C2_Witness ==
    /\ Returned
    /\ "users" \in DOMAIN result
    /\ Len(first_names) = 3
    /\ Len(last_names) = 2
    /\ Len(domains) = 2
    /\ result.users[3].lastName = last_names[1]
    /\ result.users[3].lastName # last_names[2]
    /\ result.users[2].email =
            <<"b", "o", "b", ".", "o", "z", "@", "Y", ".", "o", "r", "g">>

\* C3: for valid inputs and every outcome of the random source, every record
\* has min_age <= age <= max_age and a city that is an element of the city list.
C3_AgeAndCityInRange ==
    (gpc \in {"loop", "done"} /\ ValidInputs) =>
        /\ \A k \in 1..Len(users) :
                /\ min_age <= users[k].age
                /\ users[k].age <= max_age
                /\ users[k].city \in Range(city)
        /\ Returned => ("users" \in DOMAIN result /\ result.users = users)

\* Both ends of a range of two ages are drawn, and both cities
C3_Witness ==
    /\ Returned
    /\ "users" \in DOMAIN result
    /\ min_age < max_age
    /\ Len(result.users) = 3
    /\ result.users[1].age = min_age
    /\ result.users[2].age = max_age
    /\ result.users[1].city # result.users[2].city

\* C4: the result is tagged: an 'error' key and no 'users' or 'count' key (and
\* no record produced) when a list is empty, min_age > max_age or an age is
\* negative; 'users' and 'count' and no 'error' key otherwise.
C4_TaggedResult ==
    Returned =>
        IF ValidInputs
        THEN DOMAIN result = {"users", "count"}
        ELSE DOMAIN result = {"error"} /\ users = << >>

\* Only the last check, the city list, fails
C4_Witness ==
    /\ Returned
    /\ first_names # << >>
    /\ last_names # << >>
    /\ domains # << >>
    /\ 0 <= min_age
    /\ min_age <= max_age
    /\ city = << >>
    /\ DOMAIN result = {"error"}

\* The check the claim's order makes fail first: 0 when all pass
FirstFailing ==
    IF first_names = << >> THEN 1
    ELSE IF last_names = << >> THEN 2
    ELSE IF domains = << >> THEN 3
    ELSE IF min_age > max_age THEN 4
    ELSE IF min_age < 0 \/ max_age < 0 THEN 5
    ELSE IF city = << >> THEN 6
    ELSE 0

\* C10: the checks run in the order first_names, last_names, domains,
\* min_age <= max_age, ages non-negative, city, and the error returned is that
\* of the earliest failing check.
C10_FirstFailureWins ==
    (Returned /\ FirstFailing # 0) =>
        /\ "error" \in DOMAIN result
        /\ result.error =
            CASE FirstFailing = 1 -> <<"first_names list cannot be empty.">>
              [] FirstFailing = 2 -> <<"last_names list cannot be empty.">>
              [] FirstFailing = 3 -> <<"domains list cannot be empty.">>
              [] FirstFailing = 4 ->
                    <<"min_age ">> \o IntStr(min_age)
                        \o <<" cannot be greater than max_age ">>
                        \o IntStr(max_age) \o <<".">>
              [] FirstFailing = 5 -> <<"Ages must be non-negative.">>
              [] OTHER -> <<"city list cannot be empty">>

\* min_age = 1 and max_age = -1 with an empty city list: the ordering error,
\* not the non-negative error nor the city error
C10_Witness ==
    /\ Returned
    /\ first_names # << >>
    /\ last_names # << >>
    /\ domains # << >>
    /\ min_age = 1
    /\ max_age = 0 - 1
    /\ city = << >>
    /\ "error" \in DOMAIN result
    /\ result.error = <<"min_age ", "1", " cannot be greater than max_age ", "-", "1", ".">>

(***************************************************************************)
(* Properties of write_json and read_json, under JsonSpec                  *)
(***************************************************************************)

\* What json.dump accepts: None, bool, int, str, lists and tuples of such
\* values, and dicts of such values under str, int, bool or None keys
RECURSIVE JsonSerializable(_)
JsonSerializable(v) ==
    CASE v.t \in {"none", "bool", "int", "str"} -> TRUE
      [] v.t \in {"list", "tuple"} ->
            \A k \in 1..Len(v.items) : JsonSerializable(v.items[k])
      [] v.t = "dict" ->
            /\ \A k \in 1..Len(v.keys) : v.keys[k].t \in {"str", "int", "bool", "none"}
            /\ \A k \in 1..Len(v.items) : JsonSerializable(v.items[k])
      [] OTHER -> FALSE

\* The values JSON itself has: None, bool, int, str, lists of such values and
\* dicts of such values under str keys
RECURSIVE PlainJson(_)
PlainJson(v) ==
    CASE v.t \in {"none", "bool", "int", "str"} -> TRUE
      [] v.t = "list" -> \A k \in 1..Len(v.items) : PlainJson(v.items[k])
      [] v.t = "dict" ->
            /\ \A k \in 1..Len(v.keys) : v.keys[k].t = "str"
            /\ \A k \in 1..Len(v.items) : PlainJson(v.items[k])
      [] OTHER -> FALSE

\* read_json(p) has just returned, the latest write_json(p, data) before it
\* reported success, and the file can be read
ReadAfterWrite(p) ==
    /\ jop = "read_json"
    /\ jpath = p
    /\ lastWrite[p].called
    /\ lastWrite[p].ok
    /\ fs[p].r

\* C5 as claimed: write_json(path, data) then read_json(path) is a round trip
\* for every JSON-serializable mapping: the text read_json returns parses to a
\* value equal to data, key order included.
C5_RoundTripAnySerializable ==
    \A p \in Paths :
        (ReadAfterWrite(p) /\ JsonSerializable(lastWrite[p].data)) =>
            LET v == Loads(jret)
            IN  v.ok /\ v.val = lastWrite[p].data

\* C5 as amended: the round trip holds for every mapping made of JSON's own
\* values: str keys at every level, and None, bool, int, str, list and dict
\* values.
C5_RoundTripPlainJson ==
    \A p \in Paths :
        (ReadAfterWrite(p) /\ PlainJson(lastWrite[p].data)) =>
            LET v == Loads(jret)
            IN  v.ok /\ v.val = lastWrite[p].data

\* Two str keys in the order written, a string with a quote and a non-ASCII
\* character, a negative int and a nested dict come back as written
C5_Witness ==
    \E p \in Paths :
        /\ ReadAfterWrite(p)
        /\ PlainJson(lastWrite[p].data)
        /\ lastWrite[p].data.keys = <<PyStr(<<"1">>), PyStr(<<"a">>)>>
        /\ lastWrite[p].data.items[1].t = "list"
        /\ Loads(jret).val = lastWrite[p].data

\* How the claim sorts the files: no file; a file that cannot be opened or
\* decoded; a file whose text is not JSON; a well-formed file
FileClass(f) ==
    CASE f.kind = "absent" -> "not found"
      [] f.kind = "dir" \/ ~f.r \/ ~Decodable(f.text) -> "read error"
      [] ~Loads(f.text).ok -> "invalid"
      [] OTHER -> "content"

\* The kind of message a returned text is, told from its text alone
MsgKind(ret) ==
    IF Len(ret) >= 2 /\ ret[1] = CrossMark
    THEN CASE ret[2] = " Error: File '" /\ ret[Len(ret)] = "' not found" -> "not found"
           [] ret[2] = " Error: Invalid JSON in file '" -> "invalid"
           [] ret[2] = " Error reading JSON: " -> "read error"
           [] OTHER -> "unknown"
    ELSE "content"

\* C6: read_json never raises; a path with no file yields the 'not found'
\* message, a file with invalid JSON the 'Invalid JSON' message, any other
\* failure to read the 'Error reading JSON' message, and a well-formed file
\* its content, which is none of the three messages.
C6_ReadClassified ==
    /\ \A p \in Paths : ReadJsonCall(fs[p], p).raised = NoRaise
    /\ jop = "read_json" =>
        /\ MsgKind(jret) = FileClass(fs[jpath])
        /\ FileClass(fs[jpath]) = "content" =>
            /\ Loads(jret).ok
            /\ Loads(jret).val = Loads(fs[jpath].text).val
            /\ \A c \in Range(jret) : c \notin NonAscii

\* A write that failed on a value json cannot serialise left a truncated file,
\* and read_json reports it as invalid JSON
C6_Witness ==
    /\ jop = "read_json"
    /\ lastWrite[jpath].called
    /\ ~lastWrite[jpath].ok
    /\ fs[jpath].kind = "file"
    /\ fs[jpath].text # << >>
    /\ jret = <<CrossMark, " Error: Invalid JSON in file '", jpath, "'">>

(***************************************************************************)
(* Properties of run_agent and the CLI loop, under CliSpec                 *)
(***************************************************************************)

Matches(s, pattern) ==
    Len(s) = Len(pattern) /\ \A k \in 1..Len(s) : s[k] \in pattern[k]

\* 'quit', 'exit' or 'q' in any letter case, or nothing, between whitespace
ExitLine(l) ==
    LET s == Strip(l)
    IN  \/ s = << >>
        \/ Matches(s, <<{"q", "Q"}, {"u", "U"}, {"i", "I"}, {"t", "T"}>>)
        \/ Matches(s, <<{"e", "E"}, {"x", "X"}, {"i", "I"}, {"t", "T"}>>)
        \/ Matches(s, <<{"q", "Q"}>>)

\* C7: an orchestrator failure is never fatal: run_agent turns it into an error
\* reply, the loop prints it and is back at the prompt, and the session ends
\* only on an exit token or an empty line.
C7_FailureNotFatal ==
    /\ [](dpc # "crashed")
    /\ [][(dpc = "returned" /\ outcome.kind # "reply") =>
            /\ dpc' = "prompt"
            /\ stdout' = Append(stdout, <<CrossMark, " Error: ">> \o outcome.text
                                            \o <<"\nPlease try again.">>)]_vars
    /\ [](dpc = "done" => ExitLine(line))

\* A failed turn, then a turn that succeeded, then 'quit'
C7_Witness ==
    /\ dpc = "done"
    /\ Len(history) = 4
    /\ history[2].content =
            <<CrossMark, " Error: ", "503 service unavailable", "\nPlease try again.">>
    /\ history[4].content = <<"Saved 3 users.">>
    /\ line = <<"q", "u", "i", "t">>

\* C8: the history is append-only and grows by one (human input, reply) pair
\* per forwarded line, human and agent turns alternating in input order; the
\* orchestrator receives the history so far followed by the new human turn, and
\* the history does not change before the call has returned; a failed turn
\* appends the human input and the error reply.
C8_HistoryAppendOnly ==
    /\ [](/\ Len(history) =
                2 * (IF dpc \in {"prompt", "done"} THEN forwarded ELSE forwarded - 1)
          /\ \A k \in 1..Len(history) :
                history[k].role = IF k % 2 = 1 THEN "human" ELSE "ai"
          /\ dpc \in {"agent", "returned"} =>
                /\ request = history \o <<[role |-> "human", content |-> user_input]>>
                /\ Len(request) = 2 * invoked - 1)
    /\ [][IF dpc = "returned"
          THEN /\ Len(history') = Len(history) + 2
               /\ SubSeq(history', 1, Len(history)) = history
               /\ history'[Len(history) + 1] = [role |-> "human", content |-> user_input]
               /\ history'[Len(history) + 2] =
                    [role |-> "ai",
                     content |-> IF outcome.kind = "reply" THEN outcome.text
                                 ELSE <<CrossMark, " Error: ">> \o outcome.text
                                        \o <<"\nPlease try again.">>]
          ELSE history' = history]_vars

\* Three turns, the second one failed
C8_Witness ==
    /\ dpc = "prompt"
    /\ Len(history) = 6
    /\ history[1].content = <<"h", "i">>
    /\ history[3].content = <<"e", "x", "i", "t", "s">>
    /\ history[4].content =
            <<CrossMark, " Error: ", "Recursion limit of 50 reached", "\nPlease try again.">>
    /\ history[6].content = <<"Saved 3 users.">>

\* C9: the loop ends exactly when the stripped line is 'quit', 'exit' or 'q' in
\* any letter case, or empty; such a line is not forwarded and leaves the
\* history as it is; every other line is forwarded to the orchestrator exactly
\* once before the next prompt.
C9_ExitTokens ==
    /\ [][dpc = "prompt" =>
            /\ (dpc' = "done") <=> ExitLine(line')
            /\ dpc' = "done" =>
                    (invoked' = invoked /\ history' = history /\ request' = request)
            /\ dpc' # "done" => (dpc' = "call" /\ user_input' = Strip(line'))]_vars
    /\ [][dpc' = "done" => dpc \in {"prompt", "done"}]_vars
    /\ [](/\ dpc = "call" => invoked = forwarded - 1
          /\ dpc # "call" => invoked = forwarded
          /\ dpc \in {"agent", "returned"} =>
                request[Len(request)] = [role |-> "human", content |-> user_input])

\* ' QuIT<tab>' ends the session after 'exits' was forwarded once
C9_Witness ==
    /\ dpc = "done"
    /\ line = <<" ", "Q", "u", "I", "T", "\t">>
    /\ invoked = 1
    /\ Len(history) = 2
    /\ history[1].content = <<"e", "x", "i", "t", "s">>

====
